---- MODULE Spec2Model ----
(***************************************************************************)
(* Model of the websocket chat relay with the embedded exchange-rate       *)
(* command (Python_Web_5/PrivatBank-Api.py, class Server).                 *)
(*                                                                         *)
(* Text is modelled as a sequence of one-character strings so that the     *)
(* substring tests, the date regular expression and the f-string           *)
(* formatting are computed as the code computes them.                      *)
(***************************************************************************)
EXTENDS Integers, Sequences, FiniteSets, TLC

(* ----------------------------- bounds ---------------------------------- *)
\* number of connection handles that may be live at the same time
NConn == 2
\* number of connections accepted over a run
MaxConnects == 3
\* number of messages classified as commands over a run
MaxCommands == 1
\* number of half-day clock ticks over a run
MaxTicks == 1

(* ------------------------- text primitives ----------------------------- *)
UpperLetters == <<"A", "B", "C", "D", "E", "F", "G", "H", "I", "J", "K", "L", "M", "N", "O", "P", "Q", "R", "S", "T", "U", "V", "W", "X", "Y", "Z">>
LowerLetters == <<"a", "b", "c", "d", "e", "f", "g", "h", "i", "j", "k", "l", "m", "n", "o", "p", "q", "r", "s", "t", "u", "v", "w", "x", "y", "z">>
Digits == <<"0", "1", "2", "3", "4", "5", "6", "7", "8", "9">>

Range(s) == {s[i] : i \in 1..Len(s)}

UpperSet == Range(UpperLetters)
DigitSet == Range(Digits)
WordSet == Range(Digits) \cup Range(UpperLetters) \cup Range(LowerLetters) \cup {"_"}

IndexOf(c, s) == CHOOSE i \in 1..Len(s) : s[i] = c

\* str.lower() on one character
LowerChar(c) == IF c \in UpperSet THEN LowerLetters[IndexOf(c, UpperLetters)] ELSE c

\* str.lower()
Lower(s) == [i \in 1..Len(s) |-> LowerChar(s[i])]

\* Python's  sub in s  on strings
Contains(sub, s) == \E i \in 0..(Len(s) - Len(sub)) : SubSeq(s, i + 1, i + Len(sub)) = sub

IsDigit(c) == c \in DigitSet

\* \w of the re module (ASCII part)
IsWordChar(c) == c \in WordSet

DigitVal(c) == IndexOf(c, Digits) - 1

RECURSIVE StrToInt(_)
\* int() of a string of decimal digits
StrToInt(s) == IF Len(s) = 0 THEN 0 ELSE 10 * StrToInt(SubSeq(s, 1, Len(s) - 1)) + DigitVal(s[Len(s)])

RECURSIVE IntToStr(_)
\* str() of a non-negative integer
IntToStr(n) == IF n < 10 THEN <<Digits[n + 1]>> ELSE IntToStr(n \div 10) \o <<Digits[(n % 10) + 1]>>

(* -------------------- parseTheString: the date regex ------------------- *)
\* \b at the gap before position i (1..Len(s)+1)
WordBoundary(s, i) ==
    LET before == i > 1 /\ IsWordChar(s[i - 1])
        after == i <= Len(s) /\ IsWordChar(s[i])
    IN before # after

AllDigits(s, from, n) == from + n - 1 <= Len(s) /\ \A k \in from..(from + n - 1) : IsDigit(s[k])

IsDot(s, i) == i <= Len(s) /\ s[i] = "."

\* r"\b\d{1,2}\.\d{1,2}\.\d{4}\b" anchored at i with a day of a digits and a month of b digits
DateMatchLenAt(s, i, a, b) ==
    /\ WordBoundary(s, i)
    /\ AllDigits(s, i, a)
    /\ IsDot(s, i + a)
    /\ AllDigits(s, i + a + 1, b)
    /\ IsDot(s, i + a + b + 1)
    /\ AllDigits(s, i + a + b + 2, 4)
    /\ WordBoundary(s, i + a + b + 6)

\* the length of the match of the pattern at i, 0 when there is none (greedy: two digits first)
DateMatchAt(s, i) ==
    IF DateMatchLenAt(s, i, 2, 2) THEN 10
    ELSE IF DateMatchLenAt(s, i, 2, 1) THEN 9
    ELSE IF DateMatchLenAt(s, i, 1, 2) THEN 9
    ELSE IF DateMatchLenAt(s, i, 1, 1) THEN 8
    ELSE 0

RECURSIVE FindAllFrom(_, _)
\* re.findall(pattern, message): the non-overlapping matches, left to right
FindAllFrom(s, i) ==
    IF i > Len(s) THEN << >>
    ELSE LET n == DateMatchAt(s, i)
         IN IF n > 0 THEN <<SubSeq(s, i, i + n - 1)>> \o FindAllFrom(s, i + n)
            ELSE FindAllFrom(s, i + 1)

FindAll(s) == FindAllFrom(s, 1)

list_of_currency == <<<<"U", "S", "D">>, <<"E", "U", "R">>, <<"P", "L", "Z">>, <<"A", "U", "D">>>>

\* the currency search made blind to letter case
CurrencyMatches_anyCase(message) ==
    SelectSeq(list_of_currency, LAMBDA e : Contains(Lower(e), Lower(message)))

\* [elements for elements in list_of_currency if elements in message]
CurrencyMatches(message) == SelectSeq(list_of_currency, LAMBDA e : Contains(e, message))

\* Python's None where a str is expected: no sequence of characters equals it
None == <<"None">>

\* parseTheString: the two single-element unpackings raise on zero or several
\* matches (TypeError for  (matches,) = None, ValueError otherwise)
parseTheString(message) ==
    LET found == FindAll(message)
        curs == CurrencyMatches(message)
    IN IF Len(found) = 0 THEN [raised |-> "TypeError"]
       ELSE IF Len(found) # 1 THEN [raised |-> "ValueError"]
       ELSE IF Len(curs) # 1 THEN [raised |-> "ValueError"]
       ELSE [raised |-> "no", currency |-> curs[1], date |-> found[1]]

(* ------------------------- formatDate ---------------------------------- *)
TenDays == 10
HoursPerDay == 24

IsLeap(y) == (y % 4 = 0) /\ ((y % 100 # 0) \/ (y % 400 = 0))

DaysInMonth(y, m) ==
    IF m = 2 THEN (IF IsLeap(y) THEN 29 ELSE 28)
    ELSE IF m \in {4, 6, 9, 11} THEN 30 ELSE 31

RECURSIVE DaysBeforeMonth(_, _)
DaysBeforeMonth(y, m) == IF m <= 1 THEN 0 ELSE DaysBeforeMonth(y, m - 1) + DaysInMonth(y, m - 1)

\* datetime.toordinal(): days since 01.01.0001, that day being 1
Ordinal(y, m, d) ==
    LET py == y - 1
    IN py * 365 + (py \div 4) - (py \div 100) + (py \div 400) + DaysBeforeMonth(y, m) + d

\* a datetime, in hours since the midnight that starts ordinal day 0
DateTime(y, m, d, h) == Ordinal(y, m, d) * HoursPerDay + h

\* position of the k-th "." of s
RECURSIVE DotPos(_, _, _)
DotPos(s, k, from) ==
    IF from > Len(s) THEN 0
    ELSE IF s[from] = "." THEN (IF k = 1 THEN from ELSE DotPos(s, k - 1, from + 1))
    ELSE DotPos(s, k, from + 1)

\* "%d.%m.%Y": one or two digits, one or two digits, four digits
FormatMatches(s) ==
    LET p1 == DotPos(s, 1, 1)
        p2 == DotPos(s, 2, 1)
    IN /\ p1 \in {2, 3}
       /\ p2 - p1 \in {2, 3}
       /\ Len(s) - p2 = 4
       /\ \A i \in 1..Len(s) : i \in {p1, p2} \/ IsDigit(s[i])

\* datetime.strptime(input_date, "%d.%m.%Y"): the midnight of the day, or ValueError
strptime(s) ==
    IF ~FormatMatches(s) THEN [raised |-> "ValueError"]
    ELSE LET p1 == DotPos(s, 1, 1)
             p2 == DotPos(s, 2, 1)
             d == StrToInt(SubSeq(s, 1, p1 - 1))
             m == StrToInt(SubSeq(s, p1 + 1, p2 - 1))
             y == StrToInt(SubSeq(s, p2 + 1, Len(s)))
         IN IF y >= 1 /\ m \in 1..12 /\ d >= 1 /\ d <= DaysInMonth(y, m)
            THEN [raised |-> "no", value |-> DateTime(y, m, d, 0)]
            ELSE [raised |-> "ValueError"]

\* formatDate with the window closed at exactly ten days
formatDate_strict(input_date, current_datetime) ==
    IF input_date = None THEN None
    ELSE LET checked_date == strptime(input_date)
         IN IF checked_date.raised # "no" THEN None
            ELSE IF current_datetime - checked_date.value >= TenDays * HoursPerDay THEN None
            ELSE input_date

\* formatDate: None for an unparsable date and for one more than ten days
\* before current_datetime, else the input string unchanged.  A None input
\* (never produced by parseTheString) takes the bare except.
formatDate(input_date, current_datetime) ==
    IF input_date = None THEN None
    ELSE LET checked_date == strptime(input_date)
         IN IF checked_date.raised # "no" THEN None
            ELSE IF current_datetime - checked_date.value > TenDays * HoursPerDay THEN None
            ELSE input_date

(* ---------------------- currency_exchange ------------------------------ *)
\* Python's None where a dict is expected
NoneType == [kind |-> "None"]

\* repr of a float that has one decimal digit, the rate being given in tenths
FloatStr(tenths) == IntToStr(tenths \div 10) \o <<".">> \o IntToStr(tenths % 10)

\* response.get("exchangeRate", [])
GetExchangeRate(response) == IF response.hasKey THEN response.exchangeRate ELSE << >>

\* currency_exchange on a dict: None for an empty table, ValueError when the
\* filter leaves zero or several entries, else the formatted line.
\* On None (request returned nothing)  response.get  raises AttributeError.
currency_exchange(response, currency_name) ==
    IF response = NoneType THEN [raised |-> "AttributeError"]
    ELSE LET exchangeRate == GetExchangeRate(response)
             hits == SelectSeq(exchangeRate, LAMBDA element : element.currency = currency_name)
         IN IF Len(exchangeRate) = 0 THEN [raised |-> "no", result |-> None]
            ELSE IF Len(hits) # 1 THEN [raised |-> "ValueError"]
            ELSE [raised |-> "no",
                  result |-> <<"C", "u", "r", "r", "e", "n", "c", "y", ":", " ">> \o currency_name \o <<",", " ", "b", "u", "y", ":", " ">>
                             \o FloatStr(hits[1].purchaseRateNB) \o <<",", " ", "s", "a", "l", "e", ":", " ">>
                             \o FloatStr(hits[1].saleRateNB)]

(* ------------------------- request ------------------------------------- *)
\* what the remote API may answer
Rate(c, p, s) == [currency |-> c, purchaseRateNB |-> p, saleRateNB |-> s]

Body(rows) == [kind |-> "dict", hasKey |-> TRUE, exchangeRate |-> rows]

UsdRow == Rate(<<"U", "S", "D">>, 410, 416)
EurRow == Rate(<<"E", "U", "R">>, 430, 437)

HttpReplies ==
    { [kind |-> "status", status |-> 200, json |-> Body(<<EurRow, UsdRow>>)],
      [kind |-> "status", status |-> 200, json |-> Body(<<UsdRow, UsdRow>>)],
      [kind |-> "status", status |-> 200, json |-> Body(<<EurRow>>)],
      [kind |-> "status", status |-> 200, json |-> Body(<< >>)],
      [kind |-> "status", status |-> 200, json |-> [kind |-> "dict", hasKey |-> FALSE]],
      [kind |-> "status", status |-> 500],
      [kind |-> "ClientConnectionError"],
      [kind |-> "TimeoutError"] }

\* request: the JSON body on status 200, None on another status and on
\* aiohttp.ClientConnectionError
request(reply) ==
    IF reply.kind = "status" /\ reply.status = 200 THEN reply.json ELSE NoneType

(* --------------------------- inputs ------------------------------------ *)
\* names.get_full_name() draws a name at random
Names == {<<"A", "l", "i", "c", "e">>, <<"B", "o", "b">>}

\* the text messages a peer may send
Messages ==
    { <<"h", "i", " ", "t", "h", "e", "r", "e">>,
      <<"E", "x", "c", "h", "a", "n", "g", " ", "U", "S", "D", " ", "0", "5", ".", "0", "1", ".", "2", "0", "2", "5">>,
      <<"e", "x", "c", "h", "a", "n", "g", "e", " ", "U", "S", "D", " ", "0", "5", ".", "0", "1", ".", "2", "0", "2", "5">>,
      <<"e", "x", "c", "h", "a", "n", "g", "e", " ", "U", "S", "D">>,
      <<"e", "x", "c", "h", "a", "n", "g", "e", " ", "U", "S", "D", " ", "5", ".", "1", ".", "2", "0", "2", "5", " ", "0", "4", ".", "0", "1", ".", "2", "0", "2", "5">>,
      <<"e", "x", "c", "h", "a", "n", "g", "e", " ", "0", "5", ".", "0", "1", ".", "2", "0", "2", "5">>,
      <<"e", "x", "c", "h", "a", "n", "g", "e", " ", "U", "S", "D", " ", "E", "U", "R", " ", "0", "1", ".", "0", "1", ".", "2", "0", "2", "5">>,
      <<"e", "x", "c", "h", "a", "n", "g", "e", " ", "U", "S", "D", " ", "2", "1", ".", "1", "2", ".", "2", "0", "2", "4">>,
      <<"e", "x", "c", "h", "a", "n", "g", "e", " ", "U", "S", "D", " ", "2", "6", ".", "1", "2", ".", "2", "0", "2", "4">>,
      <<"e", "x", "c", "h", "a", "n", "g", "e", " ", "U", "S", "D", " ", "3", "1", ".", "0", "2", ".", "2", "0", "2", "5">>,
      <<"E", "X", "C", "H", "A", "N", "G", "E", " ", "u", "s", "d", " ", "0", "5", ".", "0", "1", ".", "2", "0", "2", "5">> }

\* datetime.now() when the run starts: 05.01.2025 00:00
NowStart == DateTime(2025, 1, 5, 0)

(* ---------------------------- state ------------------------------------ *)
Conns == 1..NConn
NoClient == 0

\* Server.clients is a set of connection objects hashed by identity: a table
\* of slots, iterated in slot order, the slot of a new member being arbitrary
Slots == 1..NConn

VARIABLES
    clients,    \* Server.clients: slot -> connection or NoClient
    name,       \* ws.name
    conn,       \* the peer's end of each connection
    pc,         \* where each handler coroutine is suspended
    msg,        \* distrubute: message
    currency,   \* distrubute: currency
    date,       \* distrubute: date
    out,        \* send_to_clients: message
    it_pos,     \* send_to_clients: the set iterator's next slot
    it_used,    \* send_to_clients: the set's size when the iterator was made
    snap,       \* the members of Server.clients when send_to_clients was called
    sent,       \* the clients whose send has returned in this broadcast
    fault,      \* the exception that ended the last handler of this connection, if any
    audit,      \* the lines appended to info.txt
    requests,   \* the date parameters of the GET requests issued
    nCommands,  \* messages that took the  "exchange" in message.lower()  branch
    connects,   \* connections accepted
    now         \* datetime.now(), hours

vars == <<clients, name, conn, pc, msg, currency, date, out, it_pos, it_used, snap,
          sent, fault, audit, requests, nCommands, connects, now>>

NoText == << >>

(* ---------------------- the set Server.clients ------------------------- *)
Members(table) == {table[k] : k \in Slots} \ {NoClient}

\* len(self.clients)
Used(table) == Cardinality({k \in Slots : table[k] # NoClient})

FreeSlots(table) == {k \in Slots : table[k] = NoClient}

\* set.add(ws) landing in slot k: no change when ws is a member already
SetAdd(table, ws, k) == IF ws \in Members(table) THEN table ELSE [table EXCEPT ![k] = ws]

\* set.remove(ws): KeyError when ws is no member
SetRemove(table, ws) ==
    IF ws \in Members(table)
    THEN [raised |-> "no", table |-> [k \in Slots |-> IF table[k] = ws THEN NoClient ELSE table[k]]]
    ELSE [raised |-> "KeyError", table |-> table]

\* next(iterator) of a set iterator at slot pos, made when the set had `used` members
SetIterNext(table, pos, used) ==
    IF Used(table) # used THEN [kind |-> "RuntimeError"]
    ELSE LET rest == {k \in Slots : k >= pos /\ table[k] # NoClient}
         IN IF rest = {} THEN [kind |-> "StopIteration"]
            ELSE LET k == CHOOSE k \in rest : \A j \in rest : k <= j
                 IN [kind |-> "item", client |-> table[k], pos |-> k + 1]

\* client.send(message) of the websockets protocol: ConnectionClosed when the
\* connection is not open, TypeError when message is not text
ClientSend(client, message) ==
    IF conn[client] # "open" THEN "ConnectionClosed"
    ELSE IF message = None THEN "TypeError"
    ELSE "ok"

(* ----------------------------- Init ------------------------------------ *)
Init ==
    /\ clients = [k \in Slots |-> NoClient]
    /\ name = [s \in Conns |-> NoText]
    /\ conn = [s \in Conns |-> "none"]
    /\ pc = [s \in Conns |-> "closed"]
    /\ msg = [s \in Conns |-> NoText]
    /\ currency = [s \in Conns |-> NoText]
    /\ date = [s \in Conns |-> NoText]
    /\ out = [s \in Conns |-> NoText]
    /\ it_pos = [s \in Conns |-> 0]
    /\ it_used = [s \in Conns |-> 0]
    /\ snap = [s \in Conns |-> {}]
    /\ sent = [s \in Conns |-> {}]
    /\ fault = [s \in Conns |-> "none"]
    /\ audit = << >>
    /\ requests = 0
    /\ nCommands = 0
    /\ connects = 0
    /\ now = NowStart

(* --------------------------- handler ----------------------------------- *)
\* register: the connection is added to Server.clients
register(table, s, slot) == SetAdd(table, s, slot)

\* unregister that forgets the removal
unregister_keeps(table, s) == table

\* unregister: self.clients.remove(ws)
unregister(table, s) == SetRemove(table, s).table

\* handler: await self.register(ws), then distrubute waits for a message
Connect(s, fullName, slot) ==
    /\ pc[s] = "closed"
    /\ connects < MaxConnects
    /\ slot \in FreeSlots(clients)
    /\ name' = [name EXCEPT ![s] = fullName]
    /\ clients' = register(clients, s, slot)
    /\ conn' = [conn EXCEPT ![s] = "open"]
    /\ pc' = [pc EXCEPT ![s] = "recv"]
    /\ connects' = connects + 1
    /\ fault' = [fault EXCEPT ![s] = "none"]
    /\ UNCHANGED <<msg, currency, date, out, it_pos, it_used, snap, sent,
                   audit, requests, nCommands, now>>

\* handler without  finally: , the unregistration following the try statement:
\* an exception that is not caught leaves the handler before it
HandlerExit_noFinally(s, exc) ==
    /\ clients' = IF exc \in {"none", "caught:WebSocketProtocolError"}
                  THEN SetRemove(clients, s).table ELSE clients
    /\ pc' = [pc EXCEPT ![s] = "closed"]
    /\ fault' = [fault EXCEPT ![s] = exc]
    /\ name' = [name EXCEPT ![s] = NoText]
    /\ conn' = [conn EXCEPT ![s] = "none"]
    /\ msg' = [msg EXCEPT ![s] = NoText]
    /\ currency' = [currency EXCEPT ![s] = NoText]
    /\ date' = [date EXCEPT ![s] = NoText]
    /\ out' = [out EXCEPT ![s] = NoText]
    /\ it_pos' = [it_pos EXCEPT ![s] = 0]
    /\ it_used' = [it_used EXCEPT ![s] = 0]
    /\ snap' = [snap EXCEPT ![s] = {}]
    /\ sent' = [sent EXCEPT ![s] = {}]

\* handler: distrubute has returned or raised exc.  except
\* WebSocketProtocolError logs; finally: await self.unregister(ws); the
\* handler ends and its connection object is dropped.
HandlerExit(s, exc) ==
    /\ clients' = unregister(clients, s)
    /\ pc' = [pc EXCEPT ![s] = "closed"]
    /\ fault' = [fault EXCEPT ![s] = exc]
    /\ name' = [name EXCEPT ![s] = NoText]
    /\ conn' = [conn EXCEPT ![s] = "none"]
    /\ msg' = [msg EXCEPT ![s] = NoText]
    /\ currency' = [currency EXCEPT ![s] = NoText]
    /\ date' = [date EXCEPT ![s] = NoText]
    /\ out' = [out EXCEPT ![s] = NoText]
    /\ it_pos' = [it_pos EXCEPT ![s] = 0]
    /\ it_used' = [it_used EXCEPT ![s] = 0]
    /\ snap' = [snap EXCEPT ![s] = {}]
    /\ sent' = [sent EXCEPT ![s] = {}]

\* distrubute: the body of the loop is done, the next message is awaited
LoopAgain(s) ==
    /\ pc' = [pc EXCEPT ![s] = "recv"]
    /\ msg' = [msg EXCEPT ![s] = NoText]
    /\ currency' = [currency EXCEPT ![s] = NoText]
    /\ date' = [date EXCEPT ![s] = NoText]
    /\ out' = [out EXCEPT ![s] = NoText]
    /\ it_pos' = [it_pos EXCEPT ![s] = 0]
    /\ it_used' = [it_used EXCEPT ![s] = 0]
    /\ snap' = [snap EXCEPT ![s] = {}]
    /\ sent' = [sent EXCEPT ![s] = {}]
    /\ UNCHANGED <<clients, name, conn, fault>>

(* ------------------- send_to_clients, one delivery --------------------- *)
\* a delivery that takes the client it could not reach out of the registry
Deliver_dropsFailed(s, text, message, pos, used, snapshot, sentSoFar) ==
    LET nx == SetIterNext(clients, pos, used)
        res == IF nx.kind = "item" THEN ClientSend(nx.client, message) ELSE "none"
    IN IF nx.kind = "StopIteration" THEN LoopAgain(s)
       ELSE IF nx.kind = "RuntimeError"
       THEN HandlerExit(s, "iter:RuntimeError")
       ELSE IF res # "ok"
       THEN /\ clients' = unregister(unregister(clients, s), nx.client)
            /\ pc' = [pc EXCEPT ![s] = "closed"]
            /\ fault' = [fault EXCEPT ![s] = "send:ConnectionClosed"]
            /\ name' = [name EXCEPT ![s] = NoText]
            /\ conn' = [conn EXCEPT ![s] = "none"]
            /\ msg' = [msg EXCEPT ![s] = NoText]
            /\ currency' = [currency EXCEPT ![s] = NoText]
            /\ date' = [date EXCEPT ![s] = NoText]
            /\ out' = [out EXCEPT ![s] = NoText]
            /\ it_pos' = [it_pos EXCEPT ![s] = 0]
            /\ it_used' = [it_used EXCEPT ![s] = 0]
            /\ snap' = [snap EXCEPT ![s] = {}]
            /\ sent' = [sent EXCEPT ![s] = {}]
       ELSE /\ pc' = [pc EXCEPT ![s] = "send"]
            /\ msg' = [msg EXCEPT ![s] = text]
            /\ out' = [out EXCEPT ![s] = message]
            /\ it_pos' = [it_pos EXCEPT ![s] = nx.pos]
            /\ it_used' = [it_used EXCEPT ![s] = used]
            /\ snap' = [snap EXCEPT ![s] = snapshot]
            /\ sent' = [sent EXCEPT ![s] = sentSoFar \cup {nx.client}]
            /\ UNCHANGED <<clients, name, conn, currency, date, fault>>

\* One turn of  [await client.send(message) for client in self.clients] :
\* next() on the iterator, then the call of client.send.  StopIteration ends
\* the broadcast; RuntimeError (the set changed size during iteration) and a
\* failing send propagate out of send_to_clients and distrubute.
Deliver(s, text, message, pos, used, snapshot, sentSoFar) ==
    LET nx == SetIterNext(clients, pos, used)
        res == IF nx.kind = "item" THEN ClientSend(nx.client, message) ELSE "none"
    IN IF nx.kind = "StopIteration" THEN LoopAgain(s)
       ELSE IF nx.kind = "RuntimeError"
       THEN HandlerExit(s, "iter:RuntimeError")
       ELSE IF res # "ok"
       THEN HandlerExit(s, IF res = "TypeError" THEN "send:TypeError" ELSE "send:ConnectionClosed")
       ELSE /\ pc' = [pc EXCEPT ![s] = "send"]
            /\ msg' = [msg EXCEPT ![s] = text]
            /\ out' = [out EXCEPT ![s] = message]
            /\ it_pos' = [it_pos EXCEPT ![s] = nx.pos]
            /\ it_used' = [it_used EXCEPT ![s] = used]
            /\ snap' = [snap EXCEPT ![s] = snapshot]
            /\ sent' = [sent EXCEPT ![s] = sentSoFar \cup {nx.client}]
            /\ UNCHANGED <<clients, name, conn, currency, date, fault>>

\* send_to_clients(message) up to its first suspension:  if self.clients:  and
\* the first turn of the comprehension on a fresh iterator (text is the
\* message of distrubute that the broadcast answers)
send_to_clients(s, text, message) ==
    IF Used(clients) = 0
    THEN LoopAgain(s)
    ELSE Deliver(s, text, message, 1, Used(clients), Members(clients), {})

\* send_to_clients: a client.send has returned; the next turn of the comprehension
SendNext(s) ==
    /\ pc[s] = "send"
    /\ Deliver(s, msg[s], out[s], it_pos[s], it_used[s], snap[s], sent[s])
    /\ UNCHANGED <<audit, requests, nCommands, connects, now>>

(* --------------------------- the peers --------------------------------- *)
\* the peer closes its end or the transport fails
PeerCloses(s) ==
    /\ conn[s] = "open"
    /\ conn' = [conn EXCEPT ![s] = "closed"]
    /\ UNCHANGED <<clients, name, pc, msg, currency, date, out, it_pos, it_used, snap,
                   sent, fault, audit, requests, nCommands, connects, now>>

\* how  async for message in ws  sees the end of the connection: it ends on
\* ConnectionClosedOK (close code 1000 or 1001); ConnectionClosedError
\* propagates through handler; WebSocketProtocolError is caught by handler
LoopEnds == {"none", "recv:ConnectionClosedError", "caught:WebSocketProtocolError"}

\* distrubute: the loop ends, handler unregisters
LoopExits(s, how) ==
    /\ pc[s] = "recv"
    /\ conn[s] = "closed"
    /\ HandlerExit(s, how)
    /\ UNCHANGED <<audit, requests, nCommands, connects, now>>

(* -------------------------- distrubute --------------------------------- *)
\* the test without the lower(): only the lower-case word is a command
IsCommand_caseSensitive(message) == Contains(<<"e", "x", "c", "h", "a", "n", "g", "e">>, message)

\* "exchange" in message.lower()
IsCommand(message) == Contains(<<"e", "x", "c", "h", "a", "n", "g", "e">>, Lower(message))

\* f"{ws.name}: {message}"
ChatText(fullName, message) == fullName \o <<":", " ">> \o message

\* distrubute taking the next message while the broadcast of the last one is
\* still awaited (each message handled in a task of its own)
Receive_concurrent(s, message) ==
    /\ pc[s] \in {"recv", "send"}
    /\ conn[s] = "open"
    /\ IF IsCommand(message)
       THEN /\ nCommands < MaxCommands
            /\ nCommands' = nCommands + 1
            /\ pc' = [pc EXCEPT ![s] = "audit"]
            /\ msg' = [msg EXCEPT ![s] = message]
            /\ UNCHANGED <<clients, name, conn, currency, date, out, it_pos, it_used, snap,
                           sent, fault>>
       ELSE /\ send_to_clients(s, message, ChatText(name[s], message))
            /\ UNCHANGED nCommands
    /\ UNCHANGED <<audit, requests, connects, now>>

\* a server that writes the audit line for every message, chat included
Receive_auditsAll(s, message) ==
    /\ pc[s] = "recv"
    /\ conn[s] = "open"
    /\ IF IsCommand(message)
       THEN /\ nCommands < MaxCommands
            /\ nCommands' = nCommands + 1
            /\ pc' = [pc EXCEPT ![s] = "audit"]
            /\ msg' = [msg EXCEPT ![s] = message]
            /\ UNCHANGED <<clients, name, conn, currency, date, out, it_pos, it_used, snap,
                           sent, fault, audit>>
       ELSE /\ send_to_clients(s, message, ChatText(name[s], message))
            /\ audit' = Append(audit, [time |-> now, name |-> name[s]])
            /\ UNCHANGED nCommands
    /\ UNCHANGED <<requests, connects, now>>


\* a server that reads no message while any session is inside its pipeline
Receive_blocking(s, message) ==
    /\ pc[s] = "recv"
    /\ conn[s] = "open"
    /\ \A t \in Conns : pc[t] \in {"closed", "recv"}
    /\ IF IsCommand(message)
       THEN /\ nCommands < MaxCommands
            /\ nCommands' = nCommands + 1
            /\ pc' = [pc EXCEPT ![s] = "audit"]
            /\ msg' = [msg EXCEPT ![s] = message]
            /\ UNCHANGED <<clients, name, conn, currency, date, out, it_pos, it_used, snap,
                           sent, fault>>
       ELSE /\ send_to_clients(s, message, ChatText(name[s], message))
            /\ UNCHANGED nCommands
    /\ UNCHANGED <<audit, requests, connects, now>>

\* distrubute: a message arrives.  A command waits for info.txt to open; a chat
\* message goes to send_to_clients.
Receive(s, message) ==
    /\ pc[s] = "recv"
    /\ conn[s] = "open"
    /\ IF IsCommand(message)
       THEN /\ nCommands < MaxCommands
            /\ nCommands' = nCommands + 1
            /\ pc' = [pc EXCEPT ![s] = "audit"]
            /\ msg' = [msg EXCEPT ![s] = message]
            /\ UNCHANGED <<clients, name, conn, currency, date, out, it_pos, it_used, snap,
                           sent, fault>>
       ELSE /\ send_to_clients(s, message, ChatText(name[s], message))
            /\ UNCHANGED nCommands
    /\ UNCHANGED <<audit, requests, connects, now>>

\* f"{datetime.now()} - {ws.name}"
AuditLine(s) == [time |-> now, name |-> name[s]]

\* distrubute without the write to info.txt
WriteAudit_noWrite(s) ==
    /\ pc[s] = "audit"
    /\ pc' = [pc EXCEPT ![s] = "parse"]
    /\ UNCHANGED <<clients, name, conn, msg, currency, date, out, it_pos, it_used, snap,
                   sent, fault, audit, requests, nCommands, connects, now>>

\* distrubute: info.txt is open; the line is written, the file closed
WriteAudit(s) ==
    /\ pc[s] = "audit"
    /\ audit' = Append(audit, AuditLine(s))
    /\ pc' = [pc EXCEPT ![s] = "parse"]
    /\ UNCHANGED <<clients, name, conn, msg, currency, date, out, it_pos, it_used, snap,
                   sent, fault, requests, nCommands, connects, now>>

\* distrubute:  currency, date = await self.parseTheString(message)
Parse(s) ==
    /\ pc[s] = "parse"
    /\ LET r == parseTheString(msg[s])
       IN IF r.raised = "no"
          THEN /\ currency' = [currency EXCEPT ![s] = r.currency]
               /\ date' = [date EXCEPT ![s] = r.date]
               /\ pc' = [pc EXCEPT ![s] = "format"]
               /\ UNCHANGED <<clients, name, conn, msg, out, it_pos, it_used, snap, sent, fault>>
          ELSE HandlerExit(s, IF r.raised = "TypeError" THEN "parseTheString:TypeError"
                              ELSE "parseTheString:ValueError")
    /\ UNCHANGED <<audit, requests, nCommands, connects, now>>

\* distrubute:  date = await self.formatDate(date)  and
\* jsonFile = await self.request(date)  up to the GET being sent
FormatAndRequest(s) ==
    /\ pc[s] = "format"
    /\ date' = [date EXCEPT ![s] = formatDate(date[s], now)]
    /\ requests' = requests + 1
    /\ pc' = [pc EXCEPT ![s] = "fetch"]
    /\ UNCHANGED <<clients, name, conn, msg, currency, out, it_pos, it_used, snap,
                   sent, fault, audit, nCommands, connects, now>>

\* a client that asks again when the reply is not a 200
Response_retry(s, reply) ==
    /\ pc[s] = "fetch"
    /\ IF reply.kind = "TimeoutError"
       THEN HandlerExit(s, "request:TimeoutError") /\ UNCHANGED requests
       ELSE LET jsonFile == request(reply)
                r == currency_exchange(jsonFile, currency[s])
            IN IF jsonFile = NoneType
               THEN /\ requests' = requests + 1
                    /\ UNCHANGED <<clients, name, conn, pc, msg, currency, date, out, it_pos,
                                   it_used, snap, sent, fault>>
               ELSE IF r.raised = "no"
               THEN send_to_clients(s, msg[s], r.result) /\ UNCHANGED requests
               ELSE HandlerExit(s, "currency_exchange:ValueError") /\ UNCHANGED requests
    /\ UNCHANGED <<audit, nCommands, connects, now>>

\* distrubute: the GET is answered; request returns, currency_exchange runs and
\* its result goes to send_to_clients.  asyncio.TimeoutError (the client's
\* total timeout) is not caught by request.
Response(s, reply) ==
    /\ pc[s] = "fetch"
    /\ IF reply.kind = "TimeoutError"
       THEN HandlerExit(s, "request:TimeoutError")
       ELSE LET jsonFile == request(reply)
                r == currency_exchange(jsonFile, currency[s])
            IN IF r.raised = "no"
               THEN send_to_clients(s, msg[s], r.result)
               ELSE HandlerExit(s, IF r.raised = "AttributeError"
                                   THEN "currency_exchange:AttributeError"
                                   ELSE "currency_exchange:ValueError")
    /\ UNCHANGED <<audit, requests, nCommands, connects, now>>

\* half a day passes
Tick ==
    /\ now < NowStart + 12 * MaxTicks
    /\ now' = now + 12
    /\ UNCHANGED <<clients, name, conn, pc, msg, currency, date, out, it_pos, it_used, snap,
                   sent, fault, audit, requests, nCommands, connects>>

Next ==
    \/ \E s \in Conns, n \in Names, k \in Slots : Connect(s, n, k)
    \/ \E s \in Conns : PeerCloses(s)
    \/ \E s \in Conns, how \in LoopEnds : LoopExits(s, how)
    \/ \E s \in Conns, m \in Messages : Receive(s, m)
    \/ \E s \in Conns : WriteAudit(s)
    \/ \E s \in Conns : Parse(s)
    \/ \E s \in Conns : FormatAndRequest(s)
    \/ \E s \in Conns, reply \in HttpReplies : Response(s, reply)
    \/ \E s \in Conns : SendNext(s)
    \/ Tick

Spec == Init /\ [][Next]_vars

(* ------------- the relay under fair scheduling ------------------------- *)
\* the inputs of the fair runs: one name, a chat message, a command that
\* parses and one that does not, an answer of each kind
FairNames == {<<"A", "l", "i", "c", "e">>}
FairMessages == {<<"h", "i", " ", "t", "h", "e", "r", "e">>, <<"e", "x", "c", "h", "a", "n", "g", "e", " ", "U", "S", "D", " ", "0", "5", ".", "0", "1", ".", "2", "0", "2", "5">>, <<"e", "x", "c", "h", "a", "n", "g", "e", " ", "U", "S", "D">>}
FairReplies ==
    { [kind |-> "status", status |-> 200, json |-> Body(<<EurRow, UsdRow>>)],
      [kind |-> "status", status |-> 200, json |-> Body(<< >>)],
      [kind |-> "status", status |-> 500],
      [kind |-> "TimeoutError"] }

\* the steps of the handler coroutine of s that the event loop runs once they
\* are ready: the file write, the HTTP answer or its timeout, the return of a
\* send and the end of the connection all arrive
HandlerStep(s) ==
    \/ \E how \in LoopEnds : LoopExits(s, how)
    \/ WriteAudit(s)
    \/ Parse(s)
    \/ FormatAndRequest(s)
    \/ \E reply \in FairReplies : Response(s, reply)
    \/ SendNext(s)

FairNext ==
    \/ \E s \in Conns, n \in FairNames, k \in Slots : Connect(s, n, k)
    \/ \E s \in Conns : PeerCloses(s)
    \/ \E s \in Conns, m \in FairMessages : Receive(s, m)
    \/ \E s \in Conns : HandlerStep(s)

FairSpec == Init /\ [][FairNext]_vars /\ \A s \in Conns : WF_vars(HandlerStep(s))

(* ------------- register and unregister called directly ----------------- *)
\* await server.register(ws) on any connection object, registered or not
CallRegister(s, fullName, slot) ==
    /\ connects < MaxConnects
    /\ slot \in FreeSlots(clients) \/ s \in Members(clients)
    /\ name' = [name EXCEPT ![s] = fullName]
    /\ clients' = register(clients, s, slot)
    /\ fault' = [fault EXCEPT ![s] = "none"]
    /\ connects' = connects + 1
    /\ UNCHANGED <<conn, pc, msg, currency, date, out, it_pos, it_used, snap, sent,
                   audit, requests, nCommands, now>>

\* await server.unregister(ws) on any connection object, registered or not:
\* the KeyError of set.remove leaves the method
CallUnregister(s) ==
    /\ clients' = unregister(clients, s)
    /\ fault' = [fault EXCEPT ![s] = IF SetRemove(clients, s).raised = "no"
                                     THEN "none" ELSE "unregister:KeyError"]
    /\ UNCHANGED <<name, conn, pc, msg, currency, date, out, it_pos, it_used, snap, sent,
                   audit, requests, nCommands, connects, now>>

RegistryNext ==
    \/ \E s \in Conns, n \in Names, k \in Slots : CallRegister(s, n, k)
    \/ \E s \in Conns : CallUnregister(s)

RegistrySpec == Init /\ [][RegistryNext]_vars

(* ------------------------- formatDate called directly -------------------------- *)

\* the texts of a day, a month and a year, each with the number it denotes
\* (-1: not a number of the width "%d.%m.%Y" takes)
DayTexts ==
    {<<<<"0", "5">>, 5>>, <<<<"5">>, 5>>, <<<<"6">>, 6>>, <<<<"1", "5">>, 15>>, <<<<"2", "5">>, 25>>, <<<<"2", "6">>, 26>>,
     <<<<"2", "9">>, 29>>, <<<<"3", "1">>, 31>>, <<<<"0", "0">>, 0>>, <<<<"x", "5">>, -1>>}

MonthTexts == {<<<<"0", "1">>, 1>>, <<<<"1">>, 1>>, <<<<"0", "2">>, 2>>, <<<<"1", "2">>, 12>>, <<<<"1", "3">>, 13>>}

YearTexts == {<<<<"2", "0", "2", "5">>, 2025>>, <<<<"2", "0", "2", "4">>, 2024>>, <<<<"2", "5">>, -1>>}

DateText(dd, mm, yy) == dd \o <<".">> \o mm \o <<".">> \o yy

DateInputs ==
    {DateText(dd[1], mm[1], yy[1]) : dd \in DayTexts, mm \in MonthTexts, yy \in YearTexts}
    \cup {None}

\* date = await self.formatDate(input_date), at the current time
CallFormatDate(input_date) ==
    /\ msg' = [msg EXCEPT ![1] = input_date]
    /\ date' = [date EXCEPT ![1] = formatDate(input_date, now)]
    /\ UNCHANGED <<clients, name, conn, pc, currency, out, it_pos, it_used, snap, sent,
                   fault, audit, requests, nCommands, connects, now>>

DateNext ==
    \/ \E input_date \in DateInputs : CallFormatDate(input_date)
    \/ Tick

DateSpec == Init /\ [][DateNext]_vars

(* ============================ the claims =============================== *)
Registered(s) == s \in Members(clients)

\* the exceptions with which a failing command pipeline leaves distrubute
PipelineFaults ==
    {"parseTheString:TypeError", "parseTheString:ValueError",
     "currency_exchange:AttributeError", "currency_exchange:ValueError", "send:TypeError"}

\* C1: no failure of the command pipeline ends the session: no handler is ever
\* ended (and its client unregistered) by an exception of the pipeline.
C1_PipelineFailureKeepsSession == \A s \in Conns : fault[s] \notin PipelineFaults

\* C2: a command whose pipeline fails causes no delivery: client.send is not
\* called with a None payload (empty rate table), and a command whose date the
\* validator rejected has delivered to no client.
C2_NoDeliveryOnFailure ==
    \A s \in Conns :
        /\ fault[s] # "send:TypeError"
        /\ (pc[s] = "send" /\ date[s] = None) => sent[s] = {}

\* C3: a command whose date the validator rejected issues no HTTP request: no
\* handler waits for the answer of a GET with a rejected date.
C3_NoRequestForRejectedDate == \A s \in Conns : pc[s] = "fetch" => date[s] # None

\* the client the next turn of the broadcast of s delivers to, NoClient if none
NextTarget(s) ==
    LET nx == SetIterNext(clients, it_pos[s], it_used[s])
    IN IF pc[s] = "send" /\ nx.kind = "item" THEN nx.client ELSE NoClient

\* C4: a delivery that fails because another peer has disconnected does not
\* raise past send_to_clients: the step in which the broadcasting session s
\* calls send on a closed peer leaves s registered and its broadcast going on.
C4_PeerFailureDoesNotEndBroadcast ==
    [][\A s \in Conns :
          (/\ NextTarget(s) \notin {NoClient, s}
           /\ conn[NextTarget(s)] # "open"
           /\ pc'[s] # pc[s] \/ it_pos'[s] # it_pos[s])
          => (pc'[s] \in {"send", "recv"} /\ s \in Members(clients'))]_vars

\* C5: a broadcast does not fail when the registry changes while it awaits a
\* delivery: no handler is ended by the set iterator's RuntimeError.
C5_BroadcastSurvivesRegistryChange == \A s \in Conns : fault[s] # "iter:RuntimeError"

\* C6: a client is in the registry exactly while its handler is between
\* register and unregister, the registry holds no client twice, and a client
\* enters the registry only by the register of a newly accepted connection.
C6_RegistryMatchesSessions ==
    /\ [](/\ \A s \in Conns : Registered(s) <=> pc[s] # "closed"
          /\ \A j, k \in Slots : (j # k /\ clients[j] # NoClient) => clients[j] # clients[k])
    /\ [][\A s \in Conns :
            (~Registered(s) /\ s \in Members(clients'))
            => (pc[s] = "closed" /\ pc'[s] = "recv" /\ connects' = connects + 1)]_vars

\* a handler has unregistered after a connection error while another client stays registered
C6_Witness ==
    \E s, t \in Conns :
        /\ pc[s] = "closed" /\ fault[s] = "recv:ConnectionClosedError" /\ ~Registered(s)
        /\ Registered(t) /\ connects = MaxConnects

\* C7: every handler that ends, however its loop was left, has unregistered
\* its client in that step, and a client whose peer has disconnected is
\* eventually absent from the registry.
C7_ExitUnregisters ==
    /\ [][\A s \in Conns : (pc[s] # "closed" /\ pc'[s] = "closed") => s \notin Members(clients')]_vars
    /\ \A s \in Conns : (conn[s] = "closed") ~> ~Registered(s)

\* the peer of s has disconnected while the broadcast of t still has s to deliver to
C7_Witness ==
    \E s, t \in Conns :
        /\ s # t /\ conn[s] = "closed" /\ Registered(s)
        /\ pc[t] = "send" /\ s \in snap[t] \ sent[t]

\* the clients of the broadcast of s that are still connected
Live(s) == {c \in snap[s] : conn[c] = "open"}

\* C8: a chat message m from the client named N goes out as "N: m" to every
\* client registered when it was received: when the broadcast of a chat
\* message ends, every client of its start that is still connected has it.
C8_ChatReachesAll ==
    [][\A s \in Conns :
          (pc[s] = "send" /\ currency[s] = NoText /\ pc'[s] # "send")
          => (out[s] = ChatText(name[s], msg[s]) /\ Live(s) \subseteq sent[s])]_vars

\* C9: a command with one whitelisted currency and one valid date, answered
\* with one rate entry for the currency, goes out as "Currency: c, buy: p,
\* sale: s" to all registered clients: when its broadcast ends, every client
\* of its start that is still connected has it.
C9_RateReachesAll ==
    [][\A s \in Conns :
          (pc[s] = "send" /\ currency[s] # NoText /\ date[s] # None /\ pc'[s] # "send")
          => (/\ out[s] = <<"C", "u", "r", "r", "e", "n", "c", "y", ":", " ">> \o currency[s] \o <<",", " ", "b", "u", "y", ":", " ", "4", "1", ".", "0", ",", " ", "s", "a", "l", "e", ":", " ", "4", "1", ".", "6">>
              /\ Live(s) \subseteq sent[s])]_vars

\* C10: every message classified as a command has its audit record, naming
\* the requester, before parsing begins and whatever the pipeline does later:
\* the records are as many as the commands past the write, and a handler
\* past the write finds a record with its name.
C10_AuditBeforeParsing ==
    /\ Len(audit) = nCommands - Cardinality({s \in Conns : pc[s] = "audit"})
    /\ \A s \in Conns :
          (pc[s] \in {"parse", "format", "fetch"} \/ (pc[s] = "send" /\ currency[s] # NoText))
          => \E i \in 1..Len(audit) : audit[i].name = name[s]

\* a command has failed in parseTheString and its audit record is there
C10_Witness ==
    \E s \in Conns :
        /\ fault[s] = "parseTheString:ValueError"
        /\ Len(audit) = 1 /\ nCommands = 1

\* C11: the messages of one client are handled one after the other: a handler
\* takes a message only when it waits in the loop, with the pipeline and the
\* broadcast of its last message over.
C11_OneMessageAtATime ==
    [][\A s \in Conns :
          (msg'[s] # msg[s] /\ msg'[s] # NoText)
          => (pc[s] = "recv" /\ msg[s] = NoText /\ out[s] = NoText /\ sent[s] = {})]_vars

\* the only client has had a command handled to its end and now broadcasts a chat message
C11_Witness ==
    \E s \in Conns :
        /\ connects = 1 /\ Len(audit) = 1
        /\ pc[s] = "send" /\ currency[s] = NoText /\ s \in sent[s]

\* C12: unregister of a client that is not in the registry is a no-op: it
\* returns without an error (and leaves the registry as it is).
C12_UnregisterAbsentIsNoOp == \A s \in Conns : fault[s] # "unregister:KeyError"

\* C15: register of a client that is already in the registry fails with
\* DuplicateClient and leaves the membership and the client's display name
\* as they are (a register call that leaves the table unchanged is one on a
\* member).
C15_DuplicateRegisterRejected ==
    [][(connects' = connects + 1 /\ clients' = clients)
       => (/\ \E s \in Members(clients) : fault'[s] = "register:DuplicateClient"
           /\ name' = name)]_vars

\* C13: the date validator accepts a day.month.year date d at the current
\* time if and only if d is parsable and now - d, d taken at midnight, is at
\* most ten days; a rejected date gives None and an accepted one is returned
\* as it was given.
C13_AcceptsWithinTenDays ==
    [][\A dd \in DayTexts, mm \in MonthTexts, yy \in YearTexts :
          (now' = now /\ msg'[1] = DateText(dd[1], mm[1], yy[1]))
          => LET parsable == /\ yy[2] >= 1 /\ mm[2] \in 1..12
                             /\ dd[2] >= 1 /\ dd[2] <= DaysInMonth(yy[2], mm[2])
                 accepted == date'[1] = msg'[1]
             IN /\ accepted <=> (parsable /\ now - DateTime(yy[2], mm[2], dd[2], 0) <= 10 * 24)
                /\ accepted \/ date'[1] = None]_vars

\* the date exactly ten days before now is accepted, and one in the future too
C13_Witness ==
    /\ now = NowStart
    /\ msg[1] = <<"2", "6", ".", "1", "2", ".", "2", "0", "2", "4">> /\ date[1] = <<"2", "6", ".", "1", "2", ".", "2", "0", "2", "4">>
    /\ connects = 0

C13_RejectedWitness ==
    /\ now = NowStart + 12
    /\ msg[1] = <<"2", "6", ".", "1", "2", ".", "2", "0", "2", "4">> /\ date[1] = None
    /\ connects = 0

\* the letters e-x-c-h-a-n-g-e, each in either case, stand in message from position i
ExchangeAt(message, i) ==
    /\ i + 7 <= Len(message)
    /\ message[i] \in {"e", "E"} /\ message[i + 1] \in {"x", "X"}
    /\ message[i + 2] \in {"c", "C"} /\ message[i + 3] \in {"h", "H"}
    /\ message[i + 4] \in {"a", "A"} /\ message[i + 5] \in {"n", "N"}
    /\ message[i + 6] \in {"g", "G"} /\ message[i + 7] \in {"e", "E"}

HasExchange(message) == \E i \in 1..Len(message) : ExchangeAt(message, i)

\* C14: a received message takes the command path if and only if it contains
\* "exchange" in any letter case; every other message takes the chat path and
\* is broadcast as "<display name>: <original text>", the text unchanged.
C14_ClassifiedByExchange ==
    [][\A s \in Conns :
          /\ (pc[s] = "recv" /\ pc'[s] = "audit")
             => (msg'[s] \in Messages /\ HasExchange(msg'[s]))
          /\ (pc[s] = "recv" /\ pc'[s] = "send")
             => (/\ msg'[s] \in Messages /\ ~HasExchange(msg'[s])
                 /\ currency'[s] = NoText
                 /\ out'[s] = name[s] \o <<":", " ">> \o msg'[s]
                 /\ audit' = audit /\ requests' = requests)]_vars

\* a chat message with a capital letter and a near miss of the command word
\* is on its way to the clients as it was typed
C14_Witness ==
    \E s \in Conns :
        /\ pc[s] = "send" /\ msg[s] = <<"E", "x", "c", "h", "a", "n", "g", " ", "U", "S", "D", " ", "0", "5", ".", "0", "1", ".", "2", "0", "2", "5">>
        /\ name[s] = <<"B", "o", "b">> /\ out[s] = <<"B", "o", "b", ":", " ", "E", "x", "c", "h", "a", "n", "g", " ", "U", "S", "D", " ", "0", "5", ".", "0", "1", ".", "2", "0", "2", "5">>
        /\ s \in sent[s]

\* C16: the registry changes only through register and unregister, each in
\* the client's own session: a client enters it on the step its handler
\* registers it and leaves it on the step its own handler exits.  A broadcast
\* step, also one whose delivery to some client fails, takes no other client
\* out and puts none in.
C16_RegistryOnlyByOwnSession ==
    [][/\ \A c \in Conns :
            /\ (c \in Members(clients) /\ c \notin Members(clients'))
               => (pc[c] # "closed" /\ pc'[c] = "closed")
            /\ (c \notin Members(clients) /\ c \in Members(clients'))
               => (pc[c] = "closed" /\ pc'[c] = "recv")
       /\ \A s \in Conns :
            (pc'[s] = "send" /\ (pc[s] \in {"recv", "fetch"} \/ it_pos'[s] # it_pos[s]))
            => Members(clients') = Members(clients)
       /\ \A s \in Conns :
            (pc[s] # "closed" /\ fault'[s] \in {"send:ConnectionClosed", "send:TypeError", "iter:RuntimeError"})
            => Members(clients') = Members(clients) \ {s}]_vars

\* a delivery has failed and a client whose connection is closed is still a
\* member, waiting for its own session to exit
C16_Witness ==
    \E s \in Conns, c \in Conns :
        /\ c # s
        /\ pc[s] = "closed" /\ fault[s] = "send:ConnectionClosed"
        /\ c \in Members(clients) /\ conn[c] = "closed" /\ pc[c] = "recv"

\* C17: sessions do not block one another.  While session a is suspended in
\* the rate fetch of its command, another session b that waits for a message
\* on an open connection can receive a chat message and start its broadcast;
\* nothing orders b's message after a's result.
C17_SessionsDoNotBlock ==
    \A a \in Conns, b \in Conns :
        (a # b /\ pc[a] = "fetch" /\ pc[b] = "recv" /\ conn[b] = "open")
        => ENABLED Receive(b, <<"h", "i", " ", "t", "h", "e", "r", "e">>)

\* b's chat message has reached every registered client, a included, while a
\* still awaits the reply to its request
C17_Witness ==
    \E a \in Conns, b \in Conns :
        /\ a # b /\ pc[a] = "fetch" /\ pc[b] = "send"
        /\ currency[b] = NoText /\ out[b] = ChatText(name[b], <<"h", "i", " ", "t", "h", "e", "r", "e">>)
        /\ Members(clients) = {a, b} /\ sent[b] = {a, b}

\* C18: at most one HTTP request is issued for a command.  A request is
\* issued only on the step that leaves the date check, one at a time; the
\* step that takes the reply issues none, whatever the reply; and a reply
\* with a status other than 200 and a connection error give the caller the
\* same value, None.
C18_OneRequestNoRetry ==
    [][/\ requests' <= nCommands'
       /\ requests' # requests
          => (/\ requests' = requests + 1
              /\ \E s \in Conns : pc[s] = "format" /\ pc'[s] = "fetch")
       /\ \A s \in Conns : (pc[s] = "fetch" /\ pc'[s] # "fetch") => requests' = requests
       /\ request([kind |-> "status", status |-> 500]) = NoneType
       /\ request([kind |-> "ClientConnectionError"]) = NoneType]_vars

\* the one request of a command was answered without a body (status 500 or
\* a connection error) and the session is over, no second request made
C18_Witness ==
    \E s \in Conns :
        /\ pc[s] = "closed" /\ fault[s] = "currency_exchange:AttributeError"
        /\ nCommands = 1 /\ requests = 1

\* C19: classification ignores letter case and the currency search does not.
\* The message "EXCHANGE usd 05.01.2025" is classified as a command, gets its
\* audit record, matches no currency code and fails in parsing: no request
\* is made for it.  A currency that is recognized stands in the original
\* text in upper case.
C19_CaseMismatchFailsParsing ==
    [][\A s \in Conns :
          LET m == <<"E", "X", "C", "H", "A", "N", "G", "E", " ", "u", "s", "d", " ", "0", "5", ".", "0", "1", ".", "2", "0", "2", "5">>
          IN /\ IsCommand(m) /\ CurrencyMatches(m) = << >>
             /\ (pc[s] = "recv" /\ msg'[s] = m) => pc'[s] = "audit"
             /\ (pc[s] = "audit" /\ msg[s] = m /\ pc'[s] # "audit")
                => (/\ pc'[s] = "parse"
                    /\ Len(audit') = Len(audit) + 1
                    /\ audit'[Len(audit')].name = name[s])
             /\ (pc[s] = "parse" /\ msg[s] = m /\ pc'[s] # "parse")
                => (/\ pc'[s] = "closed"
                    /\ fault'[s] = "parseTheString:ValueError"
                    /\ requests' = requests)
             /\ (pc[s] = "parse" /\ pc'[s] = "format")
                => \E i \in 1..(Len(msg[s]) - 2) :
                      /\ SubSeq(msg[s], i, i + 2) = currency'[s]
                      /\ \A k \in 1..3 : currency'[s][k] \in UpperSet]_vars

\* the upper-case command with the lower-case currency has been classified
\* and audited and stands before parsing
C19_Witness ==
    \E s \in Conns :
        /\ pc[s] = "parse" /\ msg[s] = <<"E", "X", "C", "H", "A", "N", "G", "E", " ", "u", "s", "d", " ", "0", "5", ".", "0", "1", ".", "2", "0", "2", "5">>
        /\ Len(audit) = 1 /\ audit[1].name = name[s]

\* C20, as stated: the number of audit records always equals the number of
\* messages classified as commands so far.
C20_AuditCountEqualsCommands == Len(audit) = nCommands

\* sessions that have classified a command and not yet finished its audit write
AuditPending == {s \in Conns : pc[s] = "audit"}

\* C20, amended: a step of the chat path (the receipt of a chat message and
\* every delivery of its broadcast) appends no audit record and issues no
\* request, and the number of audit records equals the number of messages
\* classified as commands less those whose audit write is still to come, so
\* it never exceeds the number classified and equals it when no write is
\* pending.
C20_ChatPathOnlyBroadcasts ==
    [][/\ \A s \in Conns :
            \/ /\ pc[s] = "recv" /\ conn[s] = "open" /\ pc'[s] \in {"send", "closed"}
            \/ /\ pc[s] = "send" /\ currency[s] = NoText
               /\ (pc'[s] # "send" \/ it_pos'[s] # it_pos[s])
            => (audit' = audit /\ requests' = requests /\ nCommands' = nCommands)
       /\ Len(audit') + Cardinality(AuditPending') = nCommands'
       /\ Len(audit') <= nCommands']_vars

\* after a command was classified and audited, a chat message has been
\* broadcast, and the audit log still holds the one record
C20_Witness ==
    \E s \in Conns :
        /\ nCommands = 1 /\ Len(audit) = 1 /\ requests = 0
        /\ pc[s] = "send" /\ currency[s] = NoText /\ s \in sent[s]
====
